---- MODULE Spec2Model ----
(***************************************************************************)
(* BlockfileMetadataIndex (rust/worker/src/index/metadata/types.rs): a     *)
(* transactional index from (field name, typed value) to a posting set of  *)
(* offset ids, staged in uncommitted_rbms and flushed to a Blockfile on    *)
(* commit.  The Blockfile itself (crate::blockstore) is a collaborator     *)
(* whose code is not part of this file's source; it is modelled from its   *)
(* get/set/begin/commit contract.                                          *)
(***************************************************************************)
EXTENDS Integers, Sequences, FiniteSets, TLC

\* ------------------------------------------------------------------ bounds
\* Offsets handed to set/delete are 1..MaxOffset.
MaxOffset == 2
Offsets == 1..MaxOffset

\* ------------------------------------------------------------------ inputs
\* A MetadataIndexValue { String(String), Float(f32), Bool(bool) } is written
\* [tag |-> variant, v |-> payload].
\* The (key: &str, value: MetadataIndexValue) pairs the callers of one run pass:
\* two pairs that differ in the field name only, in the payload only, or in the
\* variant only.
Workloads ==
    { { <<"key1", [tag |-> "String", v |-> "value1"]>>,
        <<"key2", [tag |-> "String", v |-> "value1"]>> },
      { <<"key1", [tag |-> "String", v |-> "value1"]>>,
        <<"key1", [tag |-> "String", v |-> "value2"]>> },
      { <<"key1", [tag |-> "String", v |-> "1.0"]>>,
        <<"key1", [tag |-> "Float",  v |-> "1.0"]>> },
      { <<"key1", [tag |-> "Float",  v |-> "1.0"]>>,
        <<"key1", [tag |-> "Bool",   v |-> "1.0"]>> } }

CallArgs == UNION Workloads

\* Placeholders of a call record whose operation takes no such argument.
NoKey == ""
NoValue == [tag |-> "None", v |-> ""]

\* --------------------------------------------------------- key encoding
\* Mutant of kv_to_blockfile_key: the field name does not reach the key.
kv_drops_field_name(key, value) ==
    [ prefix |-> "",
      key |-> CASE value.tag = "String" -> [type |-> "Key::String", payload |-> value.v]
                [] value.tag = "Float"  -> [type |-> "Key::Float",  payload |-> value.v]
                [] value.tag = "Bool"   -> [type |-> "Key::Bool",   payload |-> value.v] ]

\* fn kv_to_blockfile_key(key, value) -> BlockfileKey::new(key.to_string(), Key::<variant>(payload))
kv_to_blockfile_key(key, value) ==
    [ prefix |-> key,
      key |-> CASE value.tag = "String" -> [type |-> "Key::String", payload |-> value.v]
                   [] value.tag = "Float"  -> [type |-> "Key::Float",  payload |-> value.v]
                   [] value.tag = "Bool"   -> [type |-> "Key::Bool",   payload |-> value.v] ]

BlockfileKeys == { kv_to_blockfile_key(a[1], a[2]) : a \in CallArgs }

\* ---------------------------------------------------------------- state
VARIABLES
    blockfile,          \* the keyed store's contents: BlockfileKey -> posting set
    in_transaction,     \* BlockfileMetadataIndex.in_transaction
    uncommitted_rbms,   \* BlockfileMetadataIndex.uncommitted_rbms
    last_call,          \* the last call made on the index, with its arguments
    result,             \* what that call returned
    store_calls,        \* the calls it made on the keyed store, in order
    applied,            \* per (key, value), the accepted sets/deletes applied in call order
    at_begin,           \* the store's contents when the transaction that is open, or
                        \* that the last call committed, was opened
    staged_before,      \* the touched key's staged set just before the last insert/remove
    scenario,           \* progress through begin; set(f,v,o); commit; get(f,v)
    deleted,            \* the (key, offset) pairs the open transaction deleted and
                        \* did not set again
    touched,            \* the keys the open transaction's sets and deletes named
    workload            \* the argument pairs this run's callers pass

vars == << blockfile, in_transaction, uncommitted_rbms, last_call, result,
           store_calls, applied, at_begin, staged_before, scenario, deleted,
           touched, workload >>

EmptyMap == [k \in {} |-> {}]

\* Result<_, Box<dyn ChromaError>> as returned to the caller.
Ok(val) == [ret |-> "Ok", val |-> val]
Err(kind) == [ret |-> kind, val |-> {}]
\* A call that does not return: unwrap() on an Err panics.  The index is left as
\* the panic found it, for a caller that catches the unwinding and calls again.
Panic == [ret |-> "panic", val |-> {}]

Call(op, key, value, offset_id) ==
    [op |-> op, key |-> key, value |-> value, offset_id |-> offset_id]

MapInsert(m, k, v) == [x \in DOMAIN m \cup {k} |-> IF x = k THEN v ELSE m[x]]

\* ------------------------------------------------- the keyed store (Blockfile)
\* Outcomes a store call can have besides doing its work.
NoFault == "none"
StoreFails == "error"
WrongType == "other_value"

\* Blockfile::get(key): the stored value, or a failure if absent (or if the store
\* fails); a store of another value type hands back a value that is no bitmap.
blockfile_get(key, fault) ==
    IF fault = StoreFails \/ key \notin DOMAIN blockfile
    THEN [ok |-> FALSE, kind |-> "Err", rbm |-> {}]
    ELSE IF fault = WrongType
    THEN [ok |-> TRUE, kind |-> "Value::Other", rbm |-> {}]
    ELSE [ok |-> TRUE, kind |-> "Value::RoaringBitmapValue", rbm |-> blockfile[key]]

\* Blockfile::set(key, value): replaces (or creates) the stored value; a failed
\* set stores nothing.
blockfile_set(store, key, rbm, fault) ==
    IF fault = StoreFails THEN store ELSE MapInsert(store, key, rbm)

StoreCall(op, key, ok) == [op |-> op, key |-> key, ok |-> ok]
NoBlockfileKey == [prefix |-> "", key |-> [type |-> "", payload |-> ""]]

\* ------------------------------------------------------- observation
\* What a call leaves for its caller to see.
Observe(call, res, calls) ==
    /\ last_call' = call
    /\ result' = res
    /\ store_calls' = calls
    /\ UNCHANGED workload

\* The scenario begin; set(f,v,o); commit; get(f,v), started on a closed index and
\* set on a key the store held nothing for when it started.
ScenarioIdle ==
    [stage |-> 0, key |-> NoKey, value |-> NoValue, offset_id |-> 0,
     ok |-> TRUE, absent |-> {}]

ScenarioStep(call, res) ==
    IF call.op = "begin_transaction" /\ ~in_transaction
    THEN [ScenarioIdle EXCEPT !.stage = 1, !.ok = (res.ret = "Ok"),
                              !.absent = BlockfileKeys \ DOMAIN blockfile]
    ELSE IF /\ call.op = "set" /\ scenario.stage = 1
            /\ kv_to_blockfile_key(call.key, call.value) \in scenario.absent
    THEN [scenario EXCEPT !.stage = 2, !.key = call.key, !.value = call.value,
                          !.offset_id = call.offset_id,
                          !.ok = (scenario.ok /\ res.ret = "Ok")]
    ELSE IF call.op = "commit_transaction" /\ scenario.stage = 2
    THEN [scenario EXCEPT !.stage = 3, !.ok = (scenario.ok /\ res.ret = "Ok")]
    ELSE IF /\ call.op = "get" /\ scenario.stage = 3
            /\ call.key = scenario.key /\ call.value = scenario.value
    THEN [scenario EXCEPT !.stage = 4, !.ok = (scenario.ok /\ res.ret = "Ok")]
    ELSE ScenarioIdle

\* The reference posting set of the pair a call names: the accepted sets and
\* deletes on it, applied in call order to the empty set.
AppliedStep(call, res) ==
    LET a == << call.key, call.value >>
        old == IF a \in DOMAIN applied THEN applied[a] ELSE {}
    IN
    IF res.ret = "Ok" /\ call.op = "set"
    THEN MapInsert(applied, a, old \cup {call.offset_id})
    ELSE IF res.ret = "Ok" /\ call.op = "delete"
    THEN MapInsert(applied, a, old \ {call.offset_id})
    ELSE applied

\* The store's contents when the transaction was opened, kept until the first call
\* after its commit.
AtBeginStep(call, res) ==
    IF call.op = "begin_transaction" /\ res.ret = "Ok"
    THEN blockfile
    ELSE IF in_transaction THEN at_begin
    ELSE EmptyMap

\* The deletes of the open transaction that no later set of it undid, kept until
\* the first call after its commit.
DeletedStep(call, res) ==
    LET d == << kv_to_blockfile_key(call.key, call.value), call.offset_id >> IN
    IF call.op = "begin_transaction" /\ res.ret = "Ok" THEN {}
    ELSE IF ~in_transaction THEN {}
    ELSE IF call.op = "delete" /\ res.ret = "Ok" THEN deleted \cup {d}
    ELSE IF call.op = "set" /\ res.ret = "Ok" THEN deleted \ {d}
    ELSE deleted

\* The keys named by the accepted sets and deletes of the open transaction.
TouchedStep(call, res) ==
    IF call.op = "begin_transaction" /\ res.ret = "Ok" THEN {}
    ELSE IF ~in_transaction THEN {}
    ELSE IF call.op = "commit_transaction" /\ res.ret = "Ok" THEN {}
    ELSE IF call.op \in {"set", "delete"}
    THEN touched \cup {kv_to_blockfile_key(call.key, call.value)}
    ELSE touched

\* Bookkeeping of a step, from the state before it and the call it made.
Monitor ==
    /\ scenario' = ScenarioStep(last_call', result')
    /\ applied' = AppliedStep(last_call', result')
    /\ at_begin' = AtBeginStep(last_call', result')
    /\ touched' = TouchedStep(last_call', result')
    /\ UNCHANGED deleted
    /\ staged_before' =
          LET k == kv_to_blockfile_key(last_call'.key, last_call'.value) IN
          IF /\ last_call'.op \in {"set", "delete"} /\ result'.ret = "Ok"
             /\ k \in DOMAIN uncommitted_rbms
          THEN uncommitted_rbms[k]
          ELSE {}

NoMonitor ==
    UNCHANGED << scenario, applied, at_begin, staged_before, deleted, touched >>

\* Bookkeeping of what a transaction started from and what it deleted.
MonitorTransaction ==
    /\ at_begin' = AtBeginStep(last_call', result')
    /\ deleted' = DeletedStep(last_call', result')
    /\ UNCHANGED << scenario, applied, staged_before, touched >>

\* Bookkeeping of the keys a transaction touched.
MonitorTouched ==
    /\ touched' = TouchedStep(last_call', result')
    /\ UNCHANGED << scenario, applied, at_begin, staged_before, deleted >>

\* ---------------------------------------------------------------- Init
\* BlockfileMetadataIndex::new over a freshly created blockfile.
Init ==
    /\ blockfile = EmptyMap
    /\ in_transaction = FALSE
    /\ uncommitted_rbms = EmptyMap
    /\ last_call = Call("new", NoKey, NoValue, 0)
    /\ result = Ok({})
    /\ store_calls = << >>
    /\ applied = EmptyMap
    /\ at_begin = EmptyMap
    /\ staged_before = {}
    /\ scenario = ScenarioIdle
    /\ deleted = {}
    /\ touched = {}
    /\ workload \in Workloads

\* ------------------------------------------------------------ operations
\* Mutant of begin_rejects: a second begin is accepted.
begin_never_rejects == FALSE

\* if self.in_transaction { return Err(InTransaction) }
begin_rejects == in_transaction

\* Mutant of begin_transaction: the flag is set before the store is asked.
begin_sets_flag_first(store_fault) ==
    LET call == Call("begin_transaction", NoKey, NoValue, 0) IN
    IF begin_rejects
    THEN /\ Observe(call, Err("InTransaction"), << >>)
         /\ UNCHANGED << blockfile, in_transaction, uncommitted_rbms >>
    ELSE /\ in_transaction' = TRUE
         /\ Observe(call,
                    IF store_fault = StoreFails THEN Err("StoreError") ELSE Ok({}),
                    << StoreCall("begin_transaction", NoBlockfileKey,
                                 store_fault = NoFault) >>)
         /\ UNCHANGED << blockfile, uncommitted_rbms >>

begin_transaction(store_fault) ==
    LET call == Call("begin_transaction", NoKey, NoValue, 0) IN
    IF begin_rejects
    THEN /\ Observe(call, Err("InTransaction"), << >>)
         /\ UNCHANGED << blockfile, in_transaction, uncommitted_rbms >>
    ELSE IF store_fault = StoreFails
    THEN /\ Observe(call, Err("StoreError"),
                    << StoreCall("begin_transaction", NoBlockfileKey, FALSE) >>)
         /\ UNCHANGED << blockfile, in_transaction, uncommitted_rbms >>
    ELSE /\ in_transaction' = TRUE
         /\ Observe(call, Ok({}),
                    << StoreCall("begin_transaction", NoBlockfileKey, TRUE) >>)
         /\ UNCHANGED << blockfile, uncommitted_rbms >>

\* The orders in which HashMap::drain can yield the staged pairs.
DrainOrders ==
    LET S == DOMAIN uncommitted_rbms IN
    { s \in [1..Cardinality(S) -> S] : \A i, j \in 1..Cardinality(S) : s[i] = s[j] => i = j }

\* Mutant of Flush: an empty staged bitmap is not written.
RECURSIVE Flush_skips_empty(_, _, _)
Flush_skips_empty(store, order, set_faults) ==
    IF order = << >> THEN store
    ELSE Flush_skips_empty(
            IF uncommitted_rbms[Head(order)] = {} THEN store
            ELSE blockfile_set(store, Head(order), uncommitted_rbms[Head(order)],
                               set_faults[Head(order)]),
            Tail(order), set_faults)

\* Mutant of Flush: the loop returns after its first write.
Flush_first_only(store, order, set_faults) ==
    IF order = << >> THEN store
    ELSE blockfile_set(store, Head(order), uncommitted_rbms[Head(order)],
                       set_faults[Head(order)])

\* Mutant of Flush: the staged bitmap is merged into the committed one.
RECURSIVE Flush_merges(_, _, _)
Flush_merges(store, order, set_faults) ==
    IF order = << >> THEN store
    ELSE Flush_merges(
            blockfile_set(store, Head(order),
                          uncommitted_rbms[Head(order)]
                            \cup (IF Head(order) \in DOMAIN store
                                  THEN store[Head(order)] ELSE {}),
                          set_faults[Head(order)]),
            Tail(order), set_faults)

\* for (key, rbm) in self.uncommitted_rbms.drain() { self.blockfile.set(key, rbm); }
\* The value of each set is dropped: a failed write does not stop the loop.
RECURSIVE Flush(_, _, _)
Flush(store, order, set_faults) ==
    IF order = << >> THEN store
    ELSE Flush(blockfile_set(store, Head(order), uncommitted_rbms[Head(order)],
                             set_faults[Head(order)]),
               Tail(order), set_faults)

FlushCalls(order, set_faults) ==
    [i \in 1..Len(order) |-> StoreCall("set", order[i], set_faults[order[i]] = NoFault)]

\* if !self.in_transaction { return Err(NotInTransaction) }
commit_rejects == ~in_transaction

\* What commit_transaction answers once the writes are done and the store's commit
\* has returned: the store's failure through `?`, Ok otherwise.
commit_result(set_faults, commit_fault) ==
    IF commit_fault = StoreFails THEN Err("StoreError") ELSE Ok({})

\* Mutant of drained: the drain leaves the staged pairs in the buffer.
drain_keeps_entries == uncommitted_rbms

\* self.uncommitted_rbms after drain() has run to its end (and after clear()).
drained == EmptyMap

\* Mutant of flag_after_commit: commit_transaction leaves the flag open.
flag_stays_open(commit_fault) == TRUE

\* self.in_transaction after self.blockfile.commit_transaction()?: the assignment
\* of false is reached only when the store's commit returned Ok.
flag_after_commit(commit_fault) == (commit_fault = StoreFails)

commit_transaction(order, set_faults, commit_fault) ==
    LET call == Call("commit_transaction", NoKey, NoValue, 0) IN
    IF commit_rejects
    THEN /\ Observe(call, Err("NotInTransaction"), << >>)
         /\ UNCHANGED << blockfile, in_transaction, uncommitted_rbms >>
    ELSE /\ blockfile' = Flush(blockfile, order, set_faults)
         /\ uncommitted_rbms' = drained
         /\ in_transaction' = flag_after_commit(commit_fault)
         /\ Observe(call, commit_result(set_faults, commit_fault),
                    FlushCalls(order, set_faults)
                      \o << StoreCall("commit_transaction", NoBlockfileKey,
                                      commit_fault = NoFault) >>)

\* Mutant of look_up_key_and_populate_uncommitted_rbms: a first touch always starts
\* from an empty bitmap, whatever is committed.
look_up_ignores_committed(key, got) ==
    IF key \in DOMAIN uncommitted_rbms
    THEN uncommitted_rbms
    ELSE MapInsert(uncommitted_rbms, key, {})

\* fn look_up_key_and_populate_uncommitted_rbms(&mut self, key): the staging buffer
\* after the call.  got is what self.blockfile.get(key) answered; anything but
\* Ok(Value::RoaringBitmapValue(rbm)) seeds an empty bitmap.
look_up_key_and_populate_uncommitted_rbms(key, got) ==
    IF key \in DOMAIN uncommitted_rbms
    THEN uncommitted_rbms
    ELSE IF got.ok /\ got.kind = "Value::RoaringBitmapValue"
    THEN MapInsert(uncommitted_rbms, key, got.rbm)
    ELSE MapInsert(uncommitted_rbms, key, {})

\* The store calls the look-up makes: one get, on the first touch of the key only.
look_up_calls(key, got) ==
    IF key \in DOMAIN uncommitted_rbms THEN << >>
    ELSE << StoreCall("get", key, got.ok) >>

\* offset_id is a usize, 64 bits wide where the claim's 2^32 exists.  One below
\* 2^32 is written as itself; one of 2^32 and above is written as minus its upper
\* 32-bit word (-1 is 2^32), its lower word being of no consequence below.
upper_word(offset_id) == IF offset_id < 0 THEN -offset_id ELSE 0

\* The offsets of 2^32 and above that callers pass.
WideOffsets == {-1}

\* offset_id.try_into(): u32::try_from(usize) is Ok when the upper word is zero.
try_into_ok(offset_id) == upper_word(offset_id) = 0

\* Mutant of rbm_insert: the offset is not added.
rbm_insert_dropped(rbm, offset_id) == rbm

\* rbm.insert(offset_id.try_into().unwrap())
rbm_insert(rbm, offset_id) == rbm \cup {offset_id}

\* Mutant of rbm_remove: removing an offset that is not there puts it in.
rbm_remove_toggles(rbm, offset_id) ==
    IF offset_id \in rbm THEN rbm \ {offset_id} ELSE rbm \cup {offset_id}

\* rbm.remove(offset_id.try_into().unwrap())
rbm_remove(rbm, offset_id) == rbm \ {offset_id}

\* Mutant of set_rejects: set is accepted outside a transaction.
set_never_rejects == FALSE

\* if !self.in_transaction { return Err(NotInTransaction) }
set_rejects == ~in_transaction

\* Mutant of set: the offset is written through to the store as it is staged.
set_writes_through(key, value, offset_id, get_fault) ==
    LET call == Call("set", key, value, offset_id)
        blockfilekey == kv_to_blockfile_key(key, value)
        got == blockfile_get(blockfilekey, get_fault)
        seeded == look_up_key_and_populate_uncommitted_rbms(blockfilekey, got)
        rbm == rbm_insert(seeded[blockfilekey], offset_id)
    IN
    IF set_rejects
    THEN /\ Observe(call, Err("NotInTransaction"), << >>)
         /\ UNCHANGED << blockfile, in_transaction, uncommitted_rbms >>
    ELSE /\ uncommitted_rbms' = [seeded EXCEPT ![blockfilekey] = rbm]
         /\ blockfile' = blockfile_set(blockfile, blockfilekey, rbm, NoFault)
         /\ Observe(call, Ok({}), look_up_calls(blockfilekey, got))
         /\ UNCHANGED in_transaction

set(key, value, offset_id, get_fault) ==
    LET call == Call("set", key, value, offset_id)
        blockfilekey == kv_to_blockfile_key(key, value)
        got == blockfile_get(blockfilekey, get_fault)
        seeded == look_up_key_and_populate_uncommitted_rbms(blockfilekey, got)
    IN
    IF set_rejects
    THEN /\ Observe(call, Err("NotInTransaction"), << >>)
         /\ UNCHANGED << blockfile, in_transaction, uncommitted_rbms >>
    ELSE IF ~try_into_ok(offset_id)
    THEN /\ uncommitted_rbms' = seeded
         /\ Observe(call, Panic, look_up_calls(blockfilekey, got))
         /\ UNCHANGED << blockfile, in_transaction >>
    ELSE /\ uncommitted_rbms' =
                [seeded EXCEPT ![blockfilekey] = rbm_insert(@, offset_id)]
         /\ Observe(call, Ok({}), look_up_calls(blockfilekey, got))
         /\ UNCHANGED << blockfile, in_transaction >>

\* if !self.in_transaction { return Err(NotInTransaction) }
delete_rejects == ~in_transaction

delete(key, value, offset_id, get_fault) ==
    LET call == Call("delete", key, value, offset_id)
        blockfilekey == kv_to_blockfile_key(key, value)
        got == blockfile_get(blockfilekey, get_fault)
        seeded == look_up_key_and_populate_uncommitted_rbms(blockfilekey, got)
    IN
    IF delete_rejects
    THEN /\ Observe(call, Err("NotInTransaction"), << >>)
         /\ UNCHANGED << blockfile, in_transaction, uncommitted_rbms >>
    ELSE IF ~try_into_ok(offset_id)
    THEN /\ uncommitted_rbms' = seeded
         /\ Observe(call, Panic, look_up_calls(blockfilekey, got))
         /\ UNCHANGED << blockfile, in_transaction >>
    ELSE /\ uncommitted_rbms' =
                [seeded EXCEPT ![blockfilekey] = rbm_remove(@, offset_id)]
         /\ Observe(call, Ok({}), look_up_calls(blockfilekey, got))
         /\ UNCHANGED << blockfile, in_transaction >>

\* Mutant of get_rejects: get is answered inside a transaction.
get_never_rejects == FALSE

\* if self.in_transaction { return Err(InTransaction) }
get_rejects == in_transaction

\* match self.blockfile.get(blockfilekey) {
\*     Ok(Value::RoaringBitmapValue(rbm)) => Ok(rbm), _ => Err(NotFoundError) }
get_result(key, value, get_fault) ==
    LET got == blockfile_get(kv_to_blockfile_key(key, value), get_fault) IN
    IF get_rejects THEN Err("InTransaction")
    ELSE IF got.ok /\ got.kind = "Value::RoaringBitmapValue" THEN Ok(got.rbm)
    ELSE Err("NotFoundError")

get(key, value, get_fault) ==
    LET call == Call("get", key, value, 0)
        blockfilekey == kv_to_blockfile_key(key, value)
        got == blockfile_get(blockfilekey, get_fault)
    IN
    /\ Observe(call, get_result(key, value, get_fault),
               IF get_rejects THEN << >> ELSE << StoreCall("get", blockfilekey, got.ok) >>)
    /\ UNCHANGED << blockfile, in_transaction, uncommitted_rbms >>

\* ------------------------------------------------------- specifications
\* The store never fails: every store call does its work.
AllWritesOk == [k \in DOMAIN uncommitted_rbms |-> NoFault]

Next ==
    \/ begin_transaction(NoFault) /\ Monitor
    \/ \E order \in DrainOrders :
          commit_transaction(order, AllWritesOk, NoFault) /\ Monitor
    \/ \E a \in workload, o \in Offsets : set(a[1], a[2], o, NoFault) /\ Monitor
    \/ \E a \in workload, o \in Offsets : delete(a[1], a[2], o, NoFault) /\ Monitor
    \/ \E a \in workload : get(a[1], a[2], NoFault) /\ Monitor

Spec == Init /\ [][Next]_vars

\* The store may fail any call, and may hold values that are no bitmaps.
Faults == {NoFault, StoreFails}
GetFaults == {NoFault, StoreFails, WrongType}

NextFaulty ==
    \/ \E f \in Faults : begin_transaction(f) /\ NoMonitor
    \/ \E order \in DrainOrders, sf \in [DOMAIN uncommitted_rbms -> Faults], cf \in Faults :
          commit_transaction(order, sf, cf) /\ NoMonitor
    \/ \E a \in workload, o \in Offsets, f \in GetFaults :
          set(a[1], a[2], o, f) /\ NoMonitor
    \/ \E a \in workload, o \in Offsets, f \in GetFaults :
          delete(a[1], a[2], o, f) /\ NoMonitor
    \/ \E a \in workload, f \in GetFaults : get(a[1], a[2], f) /\ NoMonitor

SpecFaulty == Init /\ [][NextFaulty]_vars

\* The store does its transactions and writes, and may fail a get or answer it
\* with a value that is no bitmap.
NextGetFaulty ==
    \/ begin_transaction(NoFault) /\ MonitorTransaction
    \/ \E order \in DrainOrders :
          commit_transaction(order, AllWritesOk, NoFault) /\ MonitorTransaction
    \/ \E a \in workload, o \in Offsets, f \in GetFaults :
          set(a[1], a[2], o, f) /\ MonitorTransaction
    \/ \E a \in workload, o \in Offsets, f \in GetFaults :
          delete(a[1], a[2], o, f) /\ MonitorTransaction
    \/ \E a \in workload, f \in GetFaults : get(a[1], a[2], f) /\ MonitorTransaction

SpecGetFaulty == Init /\ [][NextGetFaulty]_vars

\* The store does its gets and writes, and may fail to commit its transaction.
NextCommitFaulty ==
    \/ begin_transaction(NoFault) /\ MonitorTouched
    \/ \E order \in DrainOrders, cf \in Faults :
          commit_transaction(order, AllWritesOk, cf) /\ MonitorTouched
    \/ \E a \in workload, o \in Offsets :
          set(a[1], a[2], o, NoFault) /\ MonitorTouched
    \/ \E a \in workload, o \in Offsets :
          delete(a[1], a[2], o, NoFault) /\ MonitorTouched
    \/ \E a \in workload : get(a[1], a[2], NoFault) /\ MonitorTouched

SpecCommitFaulty == Init /\ [][NextCommitFaulty]_vars

\* The store never fails, and callers pass offsets over the whole width of usize.
NextWide ==
    \/ begin_transaction(NoFault) /\ NoMonitor
    \/ \E order \in DrainOrders :
          commit_transaction(order, AllWritesOk, NoFault) /\ NoMonitor
    \/ \E a \in workload, o \in Offsets \cup WideOffsets :
          set(a[1], a[2], o, NoFault) /\ NoMonitor
    \/ \E a \in workload, o \in Offsets \cup WideOffsets :
          delete(a[1], a[2], o, NoFault) /\ NoMonitor
    \/ \E a \in workload : get(a[1], a[2], NoFault) /\ NoMonitor

SpecWide == Init /\ [][NextWide]_vars

\* ------------------------------------------------------------- claims
ArgsKey(a) == kv_to_blockfile_key(a[1], a[2])
LastArgs == << last_call.key, last_call.value >>
LastKey == kv_to_blockfile_key(last_call.key, last_call.value)

\* C1: on a closed index whose store holds nothing for (f,v), each call of
\* begin_transaction; set(f,v,o); commit_transaction; get(f,v) succeeds, and the get
\* returns exactly {o}.
C1_SetCommitGet ==
    /\ scenario.stage >= 1 => scenario.ok
    /\ scenario.stage = 4 => result = Ok({scenario.offset_id})

C1_Witness ==
    /\ scenario.stage = 4
    /\ scenario.value.tag = "Bool"
    /\ last_call.op = "get"
    /\ result.ret = "Ok"
    /\ Cardinality(result.val) = 1

\* C2: with the store never failing, on a closed index every (f,v) touched by a set
\* or delete reads back as the set obtained by applying all sets and deletes issued
\* on it, over all transactions and in call order, to the empty set.
C2_BuildsOnCommitted ==
    ~in_transaction =>
        \A a \in DOMAIN applied : get_result(a[1], a[2], NoFault) = Ok(applied[a])

\* A commit whose transaction deleted the last offset an earlier one had committed.
C2_Witness ==
    /\ ~in_transaction
    /\ last_call.op = "commit_transaction"
    /\ result.ret = "Ok"
    /\ \E a \in DOMAIN applied :
          /\ ArgsKey(a) \in DOMAIN at_begin
          /\ at_begin[ArgsKey(a)] # {}
          /\ applied[a] = {}
          /\ get_result(a[1], a[2], NoFault) = Ok({})

\* C3: with no transaction open, set, delete and commit_transaction fail with
\* NotInTransaction, make no store call and leave the flag, the staging buffer and
\* the store as they were.
C3_NotInTransaction ==
    [][ (~in_transaction /\ last_call'.op \in {"set", "delete", "commit_transaction"})
        => /\ result'.ret = "NotInTransaction"
           /\ store_calls' = << >>
           /\ UNCHANGED << in_transaction, uncommitted_rbms, blockfile >> ]_vars

C3_Witness ==
    /\ last_call.op \in {"set", "delete", "commit_transaction"}
    /\ result.ret = "NotInTransaction"
    /\ ~in_transaction
    /\ DOMAIN blockfile # {}

\* C4: while a transaction is open every get fails with InTransaction; a get that
\* succeeds was made on a closed index and returns the store's value for the key.
C4_ReadIsolation ==
    /\ in_transaction =>
          \A a \in workload : get_result(a[1], a[2], NoFault) = Err("InTransaction")
    /\ (last_call.op = "get" /\ in_transaction) => result = Err("InTransaction")
    /\ (last_call.op = "get" /\ result.ret = "Ok") =>
          /\ ~in_transaction
          /\ LastKey \in DOMAIN blockfile
          /\ result.val = blockfile[LastKey]

\* A get refused while the key it asks for is staged with a set the store lacks.
C4_Witness ==
    /\ last_call.op = "get"
    /\ result.ret = "InTransaction"
    /\ LastKey \in DOMAIN uncommitted_rbms
    /\ LastKey \in DOMAIN blockfile
    /\ uncommitted_rbms[LastKey] # blockfile[LastKey]

\* C5: begin_transaction on an open index fails with InTransaction, does not call
\* the store's begin_transaction, and leaves the flag open and the staging buffer
\* as it was.
C5_BeginTwice ==
    [][ (in_transaction /\ last_call'.op = "begin_transaction")
        => /\ result'.ret = "InTransaction"
           /\ store_calls' = << >>
           /\ in_transaction'
           /\ UNCHANGED uncommitted_rbms ]_vars

C5_Witness ==
    /\ last_call.op = "begin_transaction"
    /\ result.ret = "InTransaction"
    /\ in_transaction
    /\ uncommitted_rbms # EmptyMap

\* The key the step's call names, and whether two maps agree on a key.
NextKey == kv_to_blockfile_key(last_call'.key, last_call'.value)
SameEntry(m1, m2, k) ==
    /\ (k \in DOMAIN m1) = (k \in DOMAIN m2)
    /\ k \in DOMAIN m1 => m1[k] = m2[k]

\* C6: in an open transaction, a set of an offset the staged set already holds (a
\* set made twice in a row) and a delete of an offset it does not hold succeed and
\* leave the staged set as it was; a commit makes get return the staged set.
C6_Idempotent ==
    [][ /\ ( /\ last_call.op = "set" /\ result.ret = "Ok"
             /\ last_call' = last_call )
           => (result'.ret = "Ok" /\ UNCHANGED uncommitted_rbms)
        /\ ( /\ in_transaction /\ last_call'.op = "set"
             /\ NextKey \in DOMAIN uncommitted_rbms
             /\ last_call'.offset_id \in uncommitted_rbms[NextKey] )
           => (result'.ret = "Ok" /\ UNCHANGED uncommitted_rbms)
        /\ ( /\ in_transaction /\ last_call'.op = "delete"
             /\ NextKey \in DOMAIN uncommitted_rbms
             /\ last_call'.offset_id \notin uncommitted_rbms[NextKey] )
           => (result'.ret = "Ok" /\ UNCHANGED uncommitted_rbms)
        /\ ( /\ in_transaction /\ last_call'.op = "delete"
             /\ NextKey \notin DOMAIN uncommitted_rbms )
           => /\ result'.ret = "Ok"
              /\ NextKey \in DOMAIN uncommitted_rbms'
              /\ NextKey \notin DOMAIN blockfile => uncommitted_rbms'[NextKey] = {}
              /\ ( /\ NextKey \in DOMAIN blockfile
                   /\ last_call'.offset_id \notin blockfile[NextKey] )
                 => uncommitted_rbms'[NextKey] = blockfile[NextKey]
        /\ (in_transaction /\ last_call'.op = "commit_transaction" /\ result'.ret = "Ok")
           => \A a \in workload :
                 ArgsKey(a) \in DOMAIN uncommitted_rbms
                 => get_result(a[1], a[2], NoFault)' = Ok(uncommitted_rbms[ArgsKey(a)])
      ]_vars

\* A set of an offset that an earlier set of this transaction had staged.
C6_Witness ==
    /\ last_call.op = "set"
    /\ result.ret = "Ok"
    /\ store_calls = << >>
    /\ LastKey \notin DOMAIN blockfile
    /\ last_call.offset_id \in staged_before
    /\ uncommitted_rbms[LastKey] = staged_before

\* C7: on a closed index a get of a key touched by a set or delete succeeds, also
\* when the posting set is empty; a get fails with NotFound exactly for the keys
\* no transaction has touched.
C7_EmptyIsNotAbsent ==
    /\ ~in_transaction =>
          \A a \in workload :
             /\ a \in DOMAIN applied => get_result(a[1], a[2], NoFault).ret = "Ok"
             /\ a \notin DOMAIN applied
                   => get_result(a[1], a[2], NoFault) = Err("NotFoundError")
    /\ (last_call.op = "get" /\ ~in_transaction) =>
          (result.ret = "NotFoundError") = (LastArgs \notin DOMAIN applied)

\* A get that returns the empty posting set while the other key is not found.
C7_Witness ==
    /\ last_call.op = "get"
    /\ result = Ok({})
    /\ \E a \in workload : get_result(a[1], a[2], NoFault) = Err("NotFoundError")

\* C8: a set or delete on (f,v) leaves the staged entry and the committed posting
\* set of every other (field name, value) pair as they were.
C8_KeyIsolation ==
    [][ (last_call'.op \in {"set", "delete"})
        => \A a \in workload :
              a # << last_call'.key, last_call'.value >>
              => /\ SameEntry(uncommitted_rbms, uncommitted_rbms', ArgsKey(a))
                 /\ SameEntry(blockfile, blockfile', ArgsKey(a)) ]_vars

\* Two pairs that differ in the field name only, staged with different offsets.
C8_Witness ==
    /\ last_call.op = "set"
    /\ result.ret = "Ok"
    /\ \E a1, a2 \in workload :
          /\ a1[1] # a2[1]
          /\ a1[2] = a2[2]
          /\ ArgsKey(a1) \in DOMAIN uncommitted_rbms
          /\ ArgsKey(a2) \in DOMAIN uncommitted_rbms
          /\ uncommitted_rbms[ArgsKey(a1)] = {1}
          /\ uncommitted_rbms[ArgsKey(a2)] = {2}

\* C9: a successful commit_transaction makes the stored value of every staged key
\* exactly its staged set, leaves every other stored value as it was, writes each
\* staged key once and calls the store's commit after the writes, and ends with
\* the staging buffer empty and the flag closed.
C9_CommitFlushes ==
    [][ (in_transaction /\ last_call'.op = "commit_transaction" /\ result'.ret = "Ok")
        => /\ \A k \in DOMAIN uncommitted_rbms :
                 k \in DOMAIN blockfile' /\ blockfile'[k] = uncommitted_rbms[k]
           /\ \A k \in (DOMAIN blockfile \cup DOMAIN blockfile') \ DOMAIN uncommitted_rbms :
                 SameEntry(blockfile, blockfile', k)
           /\ Len(store_calls') = Cardinality(DOMAIN uncommitted_rbms) + 1
           /\ store_calls'[Len(store_calls')].op = "commit_transaction"
           /\ \A k \in DOMAIN uncommitted_rbms :
                 \E i \in 1..(Len(store_calls') - 1) :
                    store_calls'[i].op = "set" /\ store_calls'[i].key = k
           /\ uncommitted_rbms' = EmptyMap
           /\ ~in_transaction' ]_vars

\* A commit that replaced a committed set by a staged one that lacks one of its
\* offsets, beside a stored key the transaction did not touch.
C9_Witness ==
    /\ last_call.op = "commit_transaction"
    /\ result.ret = "Ok"
    /\ Len(store_calls) = 2
    /\ \E k \in DOMAIN at_begin :
          /\ store_calls[1].key = k
          /\ blockfile[k] # {}
          /\ \E o \in at_begin[k] : o \notin blockfile[k]
    /\ \E k \in DOMAIN at_begin : store_calls[1].key # k

\* C10: commit_transaction returns success only if every write it made to the
\* store succeeded and the store's commit succeeded.
C10_CommitReportsFailedWrite ==
    (last_call.op = "commit_transaction" /\ result.ret = "Ok")
        => \A i \in DOMAIN store_calls : store_calls[i].ok

\* Whether the step's last store call is a failed call of op.
LastStoreCallFailed(op) ==
    /\ store_calls' # << >>
    /\ store_calls'[Len(store_calls')].op = op
    /\ ~store_calls'[Len(store_calls')].ok

\* C11: when the store's commit_transaction fails inside commit_transaction, the
\* index returns the store's failure, the flag stays open and the staging buffer
\* still holds the staged pairs.
C11_FailedCommitKeepsBuffer ==
    [][ (in_transaction /\ last_call'.op = "commit_transaction"
            /\ LastStoreCallFailed("commit_transaction"))
        => /\ result'.ret = "StoreError"
           /\ in_transaction'
           /\ UNCHANGED uncommitted_rbms ]_vars

\* C12: when the store's begin_transaction fails inside begin_transaction on a
\* closed index, the index returns the store's failure, the flag stays closed and
\* the staging buffer empty, and a set, delete or commit_transaction that follows
\* fails with NotInTransaction.
C12_FailedBeginStaysClosed ==
    [][ /\ (~in_transaction /\ last_call'.op = "begin_transaction"
               /\ LastStoreCallFailed("begin_transaction"))
           => /\ result' = Err("StoreError")
              /\ ~in_transaction'
              /\ uncommitted_rbms' = EmptyMap
              /\ UNCHANGED << uncommitted_rbms, blockfile >>
        /\ (last_call.op = "begin_transaction" /\ result.ret = "StoreError"
               /\ last_call'.op \in {"set", "delete", "commit_transaction"})
           => /\ result'.ret = "NotInTransaction"
              /\ UNCHANGED << in_transaction, uncommitted_rbms, blockfile >> ]_vars

\* A begin that the store refused, on an index that had committed before.
C12_Witness ==
    /\ last_call.op = "begin_transaction"
    /\ result.ret = "StoreError"
    /\ store_calls = << StoreCall("begin_transaction", NoBlockfileKey, FALSE) >>
    /\ ~in_transaction
    /\ uncommitted_rbms = EmptyMap
    /\ DOMAIN blockfile # {}

\* C13: get answers NotFound only for a key the store holds no posting set for;
\* a failure of the store's get for a key it does hold, in get or in the first
\* touch of set/delete, comes back to the caller as the store's failure.
C13_StoreGetFailurePropagates ==
    /\ (last_call.op = "get" /\ result.ret = "NotFoundError")
          => (store_calls # << >> /\ store_calls[1].ok) \/ LastKey \notin DOMAIN blockfile
    /\ ( /\ last_call.op \in {"get", "set", "delete"}
         /\ store_calls # << >>
         /\ store_calls[1].op = "get"
         /\ ~store_calls[1].ok
         /\ LastKey \in DOMAIN blockfile )
          => result.ret = "StoreError"

\* C14: every offset a key had committed when a transaction began is still
\* committed for it after the transaction's successful commit, unless the
\* transaction deleted it and did not set it again, even when the store's get
\* failed or returned a value that is no posting set at the key's first touch.
C14_CommittedOffsetsSurvive ==
    (last_call.op = "commit_transaction" /\ result.ret = "Ok") =>
        \A k \in DOMAIN at_begin : \A o \in at_begin[k] :
            \/ k \in DOMAIN blockfile /\ o \in blockfile[k]
            \/ << k, o >> \in deleted

\* C15: for every offset_id a usize can hold, 2^32 and above included, set and
\* delete return success or a typed error and do not abort the caller.
C15_WideOffsetReturns ==
    last_call.op \in {"set", "delete"} =>
        result.ret \in {"Ok", "NotInTransaction", "InTransaction", "NotFoundError",
                        "StoreError"}

\* The keys a step wrote to the store.
WrittenKeys ==
    { store_calls'[i].key : i \in { j \in DOMAIN store_calls' : store_calls'[j].op = "set" } }

\* C16: in every reachable state a closed flag means an empty staging buffer; a
\* transaction starts with nothing staged, an entry enters the buffer only for the
\* key a set or delete of the open transaction names, and a commit writes only
\* keys staged that way.
C16_ClosedMeansEmpty ==
    [][ /\ ~in_transaction => uncommitted_rbms = EmptyMap
        /\ ~in_transaction' => uncommitted_rbms' = EmptyMap
        /\ (last_call'.op = "begin_transaction" /\ result'.ret = "Ok")
              => uncommitted_rbms' = EmptyMap
        /\ DOMAIN uncommitted_rbms' \ DOMAIN uncommitted_rbms
              \subseteq (IF last_call'.op \in {"set", "delete"} /\ in_transaction
                         THEN {NextKey} ELSE {})
        /\ WrittenKeys \subseteq DOMAIN uncommitted_rbms ]_vars

\* A transaction opened after one that committed staged pairs.
C16_Witness ==
    /\ last_call.op = "begin_transaction"
    /\ result.ret = "Ok"
    /\ in_transaction
    /\ uncommitted_rbms = EmptyMap
    /\ Cardinality(DOMAIN blockfile) = 2

\* C17: in a transaction the store's get is called for a key by the first set or
\* delete that names it and by no later one; a later one works on the staged
\* entry, so the staged set is the set committed at the first touch with the
\* transaction's sets and deletes on the key applied in order.
C17_SeedOnce ==
    [][ (in_transaction /\ last_call'.op \in {"set", "delete"}) =>
          IF NextKey \in touched
          THEN /\ store_calls' = << >>
               /\ NextKey \in DOMAIN uncommitted_rbms
               /\ uncommitted_rbms'[NextKey] =
                     IF last_call'.op = "set"
                     THEN uncommitted_rbms[NextKey] \cup {last_call'.offset_id}
                     ELSE uncommitted_rbms[NextKey] \ {last_call'.offset_id}
          ELSE /\ store_calls' = << StoreCall("get", NextKey, NextKey \in DOMAIN blockfile) >>
               /\ uncommitted_rbms'[NextKey] =
                     LET committed == IF NextKey \in DOMAIN blockfile
                                      THEN blockfile[NextKey] ELSE {}
                     IN IF last_call'.op = "set"
                        THEN committed \cup {last_call'.offset_id}
                        ELSE committed \ {last_call'.offset_id} ]_vars

\* A begin that succeeds and opens, or a commit that succeeds and closes, can be
\* taken when the store does not fail.
CanCycle ==
    IF in_transaction
    THEN ENABLED (\E order \in DrainOrders :
                    /\ commit_transaction(order, AllWritesOk, NoFault)
                    /\ result'.ret = "Ok" /\ ~in_transaction')
    ELSE ENABLED (/\ begin_transaction(NoFault)
                  /\ result'.ret = "Ok" /\ in_transaction')

\* What a step may do to the flag.
FlagStep ==
    /\ (~in_transaction /\ in_transaction')
          => (last_call'.op = "begin_transaction" /\ result'.ret = "Ok")
    /\ (in_transaction /\ ~in_transaction')
          => (last_call'.op = "commit_transaction" /\ result'.ret = "Ok")
    /\ (last_call'.op \in {"set", "delete", "get"} \/ result'.ret # "Ok")
          => UNCHANGED in_transaction
    /\ (last_call'.op \in {"begin_transaction", "commit_transaction"}
           /\ result'.ret = "Ok")
          => in_transaction' # in_transaction

\* C18: the index starts closed; the flag goes from closed to open only by a
\* successful begin_transaction and from open to closed only by a successful
\* commit_transaction, no set, delete, get or failed call changes it, and in every
\* state the next half of a begin/commit cycle can be taken with success.
C18_StateMachine == ~in_transaction /\ []CanCycle /\ [][FlagStep]_vars

\* The close of a second begin/commit cycle.
C18_Witness ==
    /\ last_call.op = "commit_transaction"
    /\ result.ret = "Ok"
    /\ ~in_transaction
    /\ at_begin # EmptyMap

\* C19: set and delete make no write to the store; the store's contents change
\* only in a commit_transaction step, and while a transaction is open they are
\* what they were when it began.
C19_StagingLeavesStore ==
    [][ /\ last_call'.op \in {"set", "delete"}
              => /\ UNCHANGED blockfile
                 /\ \A i \in DOMAIN store_calls' : store_calls'[i].op = "get"
        /\ blockfile' # blockfile
              => (last_call'.op = "commit_transaction" /\ in_transaction)
        /\ in_transaction' => blockfile' = at_begin' ]_vars

\* A transaction over a non-empty store that has staged, for a committed key, a
\* set that differs from the committed one.
C19_Witness ==
    /\ in_transaction
    /\ last_call.op \in {"set", "delete"}
    /\ result.ret = "Ok"
    /\ at_begin # EmptyMap
    /\ blockfile = at_begin
    /\ LastKey \in DOMAIN blockfile
    /\ uncommitted_rbms[LastKey] # blockfile[LastKey]

\* C20: whatever order the staging buffer is drained in, a commit leaves the same
\* store contents, and it writes each staged key exactly once.
C20_FlushOrderIrrelevant ==
    \A o1 \in DrainOrders :
        /\ \A k \in DOMAIN uncommitted_rbms :
              Cardinality({ i \in DOMAIN FlushCalls(o1, AllWritesOk) :
                              FlushCalls(o1, AllWritesOk)[i].key = k }) = 1
        /\ Len(FlushCalls(o1, AllWritesOk)) = Cardinality(DOMAIN uncommitted_rbms)
        /\ \A o2 \in DrainOrders :
              Flush(blockfile, o1, AllWritesOk) = Flush(blockfile, o2, AllWritesOk)

\* A commit that wrote two staged keys, the second drained one first, and changed
\* what the store held for both.
C20_Witness ==
    /\ last_call.op = "commit_transaction"
    /\ result.ret = "Ok"
    /\ Len(store_calls) = 3
    /\ store_calls[1].key = kv_to_blockfile_key("key1", [tag |-> "String", v |-> "value2"])
    /\ store_calls[2].key = kv_to_blockfile_key("key1", [tag |-> "String", v |-> "value1"])
    /\ \A k \in DOMAIN at_begin : blockfile[k] # at_begin[k]
    /\ Cardinality(DOMAIN at_begin) = 2

====
